---- MODULE Spec2Model ----
(***************************************************************************)
(* Ticket generator with QR codes: the job queue of api.py, its background *)
(* worker (job_processor) and the ticket store (event_registration).       *)
(*                                                                         *)
(* The MongoDB collections are modelled as sequences in insertion order    *)
(* (no index is ever created by the program, so nothing but the code       *)
(* keeps ticket numbers unique).  datetime.now() is a non-decreasing       *)
(* logical clock.  Each worker step is one store access of the code, so    *)
(* that HTTP handlers and several job_processor loops interleave where     *)
(* the code lets them.  The QR payload of generate_ticket_qr is computed   *)
(* on strings as sequences of characters, in a specification of its own.   *)
(***************************************************************************)
EXTENDS Integers, Sequences, FiniteSets, TLC

\* ---------------------------------------------------------------- bounds
MaxJobs == 2        \* jobs ever enqueued in one run
MaxTime == 1        \* the logical clock stops advancing here
MaxKeys == 2        \* keys in a ticket_details mapping of a request
MaxDraws == 3       \* passes of the generator's loop that are counted
MaxRows == 2        \* rows the input sheet of main.py comes to hold
MaxPasses == 2      \* passes of main.py's loop after the first

\* ------------------------------------------------------------- constants
NoTime == -1        \* None in a datetime field

TicketNumbers == {"A", "B"}     \* the 36^8 space of random.choices, cut down
ScannedNumbers == {"A"}         \* ticket numbers verify and update requests name ("": none)
Workers == {"w1", "w2"}         \* job_processor loops there may be
\* Request bodies of /generate_ticket, by what process_generate_ticket does
\* with them: "ok" is valid without send_email, "raise" makes the
\* processing function raise before any ticket number is drawn (an email
\* that is no string, a template file that is no image).
GeneratePayloads == {"ok", "raise"}
\* Bodies with send_email true: "mail" has credentials (its own or the
\* DEFAULT_EMAIL_* of the environment), "nocred" has an empty email_user or
\* email_password.
MailPayloads == {"mail", "nocred"}
\* Bodies that exercise the steps of issuance: "noemail" lacks a non-blank
\* email, "notemplate" names a template path that does not exist or a URL
\* that cannot be downloaded, "late" has mail_credentials null (its .get
\* raises after generate_ticket_qr returned).
IssuancePayloads == {"ok", "noemail", "notemplate", "late"}
AttendanceData == {"empty", "att"}

VARIABLES
    collection,             \* db["event_registration"]: Seq of ticket documents
    job_queue_collection,   \* db["job_queue"]: Seq of job documents, _id = index
    requests,               \* add_job calls between building the job and insert_one
    now,                    \* last value datetime.now() returned
    store_up,               \* whether MongoDB answers
    pc,                     \* where each job_processor loop is
    job,                    \* the _id of the job a worker holds (0: none)
    local,                  \* a worker's locals: ticket_number, result, status_code
    artifacts,              \* files in QR_GENERATED (named by ticket number)
    outbox,                 \* emails the SMTP server accepted (by ticket number)
    render,                 \* the locals of one call of generate_ticket_qr
    poller                  \* main.py's process: its sets, its files and where its loop is

vars == <<collection, job_queue_collection, requests, now, store_up, pc, job,
          local, artifacts, outbox, render, poller>>

\* ------------------------------------------------------------ documents

\* Response dictionaries, as records with the same fields throughout.
Response(msg, valid, details, email_status, tn) ==
    [message |-> msg, valid |-> valid, ticket_details |-> details,
     email_status |-> email_status, ticket_number |-> tn]

NoResult == Response("None", FALSE, "-", "-", "-")

NoLocal == [ticket_number |-> "-", result |-> NoResult, status_code |-> 200]

\* A save_ticket_in_db that stamps the attendance time at creation.
TicketDocumentStamped(ticket_number, ticket_details, t) ==
    [ticket_number |-> ticket_number,
     timestamp |-> t,
     ticket_details |-> ticket_details,
     verified |-> FALSE,
     attendance_date_time |-> t]

\* The document save_ticket_in_db inserts.
TicketDocument(ticket_number, ticket_details, t) ==
    [ticket_number |-> ticket_number,
     timestamp |-> t,
     ticket_details |-> ticket_details,
     verified |-> FALSE,
     attendance_date_time |-> NoTime]

\* An add_job that stores a placeholder as the result of a new job.
JobDocumentWithResult(job_type, data, t) ==
    [job_type |-> job_type,
     data |-> data,
     status |-> "queued",
     created_at |-> t,
     result |-> Response("queued", FALSE, "-", "-", "-")]

\* The job add_job builds.
JobDocument(job_type, data, t) ==
    [job_type |-> job_type,
     data |-> data,
     status |-> "queued",
     created_at |-> t,
     result |-> NoResult]

\* Request bodies the three endpoints receive.
GenerateData == {[payload |-> p, ticket_number |-> "-", attendance_data |-> "-"] :
                    p \in GeneratePayloads}
MailData == {[payload |-> p, ticket_number |-> "-", attendance_data |-> "-"] :
                    p \in MailPayloads}
IssuanceData == {[payload |-> p, ticket_number |-> "-", attendance_data |-> "-"] :
                    p \in IssuancePayloads}
VerifyData == {[payload |-> "-", ticket_number |-> tn, attendance_data |-> "-"] :
                    tn \in ScannedNumbers}
UpdateData == {[payload |-> "-", ticket_number |-> tn, attendance_data |-> a] :
                    tn \in ScannedNumbers, a \in AttendanceData}

\* ------------------------------------------------------------- QR payload

\* Strings of the QR payload are sequences of characters.
ascii_lowercase ==
    <<"a", "b", "c", "d", "e", "f", "g", "h", "i", "j", "k", "l", "m",
      "n", "o", "p", "q", "r", "s", "t", "u", "v", "w", "x", "y", "z">>
ascii_uppercase ==
    <<"A", "B", "C", "D", "E", "F", "G", "H", "I", "J", "K", "L", "M",
      "N", "O", "P", "Q", "R", "S", "T", "U", "V", "W", "X", "Y", "Z">>

\* The keys and values a ticket_details mapping of a request may hold.
\* Values hold no newline.
TicketNumberKey == <<"t", "i", "c", "k", "e", "t", "_", "n", "u", "m", "b", "e", "r">>
DetailKeys == {<<"n", "a", "m", "e">>, <<"e", "v", "e", "n", "t">>, <<"I", "d">>,
               TicketNumberKey}
DetailValues == {<<"A", "l">>, <<"7">>}

\* A dict as the sequence of its (key, value) items in insertion order.
IsDict(d) == \A i, k \in DOMAIN d : i # k => d[i][1] # d[k][1]
DetailMappings ==
    {d \in UNION {[1..n -> DetailKeys \X DetailValues] : n \in 0..MaxKeys} : IsDict(d)}

\* d[key] = value: a key the dict holds keeps its place, a new key goes last.
DictSet(d, key, value) ==
    IF \E i \in DOMAIN d : d[i][1] = key
    THEN [i \in DOMAIN d |-> IF d[i][1] = key THEN <<key, value>> ELSE d[i]]
    ELSE Append(d, <<key, value>>)

\* A key.upper() that leaves the key as it is.
KeyAsIs(key) == key

\* key.upper(), character by character.
KeyUpper(key) ==
    [i \in DOMAIN key |->
        IF \E n \in DOMAIN ascii_lowercase : ascii_lowercase[n] = key[i]
        THEN ascii_uppercase[CHOOSE n \in DOMAIN ascii_lowercase :
                                ascii_lowercase[n] = key[i]]
        ELSE key[i]]

\* f"{key.upper()}: {value}"
FormatItem(item) == KeyUpper(item[1]) \o <<":", " ">> \o item[2]

\* "\n".join(lines)
RECURSIVE Join(_)
Join(lines) ==
    IF lines = <<>> THEN <<>>
    ELSE IF Len(lines) = 1 THEN lines[1]
    ELSE lines[1] \o <<"\n">> \o Join(Tail(lines))

\* qr_data_str of generate_ticket_qr for the merged ticket_details.
QRData(ticket_details) ==
    Join([i \in DOMAIN ticket_details |-> FormatItem(ticket_details[i])])

\* request_details keeps the mapping as the request sent it.
NoRender == [at |-> "idle", request_details |-> <<>>, ticket_details |-> <<>>,
             ticket_number |-> <<>>, qr_data_str |-> <<>>]

\* main.py is not running.
NoPoller == [at |-> "idle"]

\* ---------------------------------------------------------------- clock

\* A value datetime.now() may return next: the clock never runs backwards
\* and need not have advanced since the last read.
ClockReads == {t \in {now, now + 1} : t <= MaxTime}

\* ---------------------------------------------------------------- store

\* collection.find_one({"ticket_number": tn}): the index of the first match, 0 for None.
find_one(tn) ==
    IF \E i \in DOMAIN collection : collection[i].ticket_number = tn
    THEN CHOOSE i \in DOMAIN collection :
            /\ collection[i].ticket_number = tn
            /\ \A k \in DOMAIN collection : k < i => collection[k].ticket_number # tn
    ELSE 0

load_ticket_by_number(tn) == find_one(tn)

\* A process_verify_ticket without its "already verified" branch.
TicketNeverVerified(doc) == FALSE

\* The test of process_verify_ticket: ticket.get("verified", False).
TicketVerified(doc) == doc.verified

\* A generate_unique_ticket_number that returns its first draw unchecked.
CandidateUnchecked(candidate) == TRUE

\* A generate_unique_ticket_number with its test inverted.
CandidateIsTaken(candidate) == find_one(candidate) # 0

\* The loop test of generate_unique_ticket_number: the candidate is returned
\* when find_one reports no document with it.
CandidateIsFree(candidate) == find_one(candidate) = 0

\* An update_ticket_in_db that flips the verified flag instead of setting it.
UpdateFieldsToggle(doc, additional_data, t) ==
    [doc EXCEPT !.verified = ~@,
                !.attendance_date_time = IF doc.verified THEN NoTime ELSE t,
                !.ticket_details = IF additional_data \in {"none", "empty"}
                                   THEN @ ELSE additional_data]

\* An update_ticket_in_db that writes additional_data into the document
\* without testing it.
UpdateFieldsReplaceAlways(doc, additional_data, t) ==
    [doc EXCEPT !.verified = TRUE,
                !.attendance_date_time = t,
                !.ticket_details = additional_data]

\* The $set of update_ticket_in_db applied to the matched document.
\* additional_data "none" is None (verify); "empty" is {} (falsy).
UpdateFields(doc, additional_data, t) ==
    [doc EXCEPT !.verified = TRUE,
                !.attendance_date_time = t,
                !.ticket_details = IF additional_data \in {"none", "empty"}
                                   THEN @ ELSE additional_data]

\* An update_ticket_in_db whose find_one_and_update is an upsert.
update_ticket_in_db_upsert(tn, additional_data, t) ==
    IF find_one(tn) = 0
    THEN Append(collection, UpdateFields(TicketDocument(tn, "reg", t), additional_data, t))
    ELSE [collection EXCEPT ![find_one(tn)] = UpdateFields(@, additional_data, t)]

\* collection after update_ticket_in_db(tn, additional_data) (find_one_and_update
\* on the first match; no match leaves it alone and returns None).
update_ticket_in_db(tn, additional_data, t) ==
    IF find_one(tn) = 0 THEN collection
    ELSE [collection EXCEPT ![find_one(tn)] = UpdateFields(@, additional_data, t)]

\* What the program keeps as an attendance log: its database has the two
\* collections event_registration and job_queue and no handler, job or
\* helper writes anywhere else, so the log is empty in every state.
attendance_log == <<>>

\* ------------------------------------------------------------ job queue

\* A claim filter that retries failed jobs.
ClaimableOrFailed(j) == job_queue_collection[j].status \in {"queued", "error"}

\* A claim filter that also matches jobs another loop is processing.
ClaimableOrProcessing(j) == job_queue_collection[j].status \in {"queued", "processing"}

\* The filter of job_processor's find_one_and_update.
Claimable(j) == job_queue_collection[j].status = "queued"

\* sort=[("created_at", 1)]: a claimable job with the least created_at
\* (MongoDB leaves the order of equal keys open).
FirstQueued(j) ==
    /\ j \in DOMAIN job_queue_collection
    /\ Claimable(j)
    /\ \A k \in DOMAIN job_queue_collection :
          Claimable(k) =>
            job_queue_collection[j].created_at <= job_queue_collection[k].created_at

\* A job_processor that puts the job back into the queue.
NewStatusRequeue(status_code) == "queued"

\* A process_generate_ticket that validates nothing.
ValidationSkipped(payload) == ""

\* The 400 responses of process_generate_ticket's validation ("": none).
ValidationError(payload) ==
    CASE payload = "noemail" -> "Missing required field: email"
      [] payload = "notemplate" -> "Template image not found"
      [] OTHER -> ""

\* A job_processor for which only server errors are errors.
NewStatusBelow500(status_code) == IF status_code < 500 THEN "completed" ELSE "error"

\* new_status of job_processor.
NewStatus(status_code) == IF status_code = 200 THEN "completed" ELSE "error"

\* The throttle test after the job's result is written: a generate job
\* with send_email whose email_status contains "sent" in lower case
\* ("Not sent" does; "Failed to send email ..." does not).
ContainsSent(email_status) == email_status \in {"Email sent", "Not sent"}

\* data.get("send_email", False)
SendEmailRequested(data) == data.payload \in {"mail", "nocred"}

\* email_user_cred and email_password
HasCredentials(data) == data.payload # "nocred"

\* A job_processor without the delay.
ThrottlesNever(job_type, data, result) == FALSE

Throttles(job_type, data, result) ==
    /\ job_type = "generate_ticket"
    /\ SendEmailRequested(data)
    /\ result.email_status # "-"
    /\ ContainsSent(result.email_status)

Entry(job_type) ==
    CASE job_type = "generate_ticket" -> "generate"
      [] job_type = "verify_ticket" -> "verify"
      [] job_type = "update_ticket" -> "update"
      [] OTHER -> "unknown"

\* ----------------------------------------------------------------- Init

\* What an earlier run of the server may have left in event_registration:
\* nothing, or one issued ticket.
InitialStores == {<<>>, <<TicketDocument("A", "reg", 0)>>}

InitStore ==
    /\ collection \in InitialStores
    /\ job_queue_collection = <<>>
    /\ requests = {}
    /\ now = 0
    /\ store_up = TRUE
    /\ job = [w \in Workers |-> 0]
    /\ local = [w \in Workers |-> NoLocal]
    /\ artifacts = {collection[i].ticket_number : i \in DOMAIN collection}
    /\ outbox = {}
    /\ render = NoRender
    /\ poller = NoPoller

\* One process: the module starts one job_processor thread.
Init ==
    /\ InitStore
    /\ pc = [w \in Workers |-> IF w = "w1" THEN "poll" ELSE "off"]

\* The module imported by two server processes: two job_processor loops
\* on the same job_queue collection.
InitTwoWorkers ==
    /\ InitStore
    /\ pc = [w \in Workers |-> "poll"]

\* One process started on a store that holds an issued ticket.
InitFair ==
    /\ Init
    /\ collection # <<>>

\* ------------------------------------------------------- HTTP handlers

\* add_job up to the insert_one: the job document is built, created_at read.
AddJobBuild(job_type, data) ==
    /\ Len(job_queue_collection) + Cardinality(requests) < MaxJobs
    /\ \E t \in ClockReads :
          /\ now' = t
          /\ requests' = requests \cup {JobDocument(job_type, data, t)}
    /\ UNCHANGED <<render, poller, collection, job_queue_collection, store_up, pc, job, local,
                   artifacts, outbox>>

\* An add_job that validates the body and drops a request it rejects.
AddJobInsertValidated(r) ==
    /\ r \in requests
    /\ store_up
    /\ requests' = requests \ {r}
    /\ job_queue_collection' =
          IF r.job_type = "generate_ticket" /\ ValidationError(r.data.payload) # ""
          THEN job_queue_collection
          ELSE Append(job_queue_collection, r)
    /\ UNCHANGED <<render, poller, collection, now, store_up, pc, job, local, artifacts, outbox>>

\* add_job's insert_one.
AddJobInsert(r) ==
    /\ r \in requests
    /\ store_up
    /\ requests' = requests \ {r}
    /\ job_queue_collection' = Append(job_queue_collection, r)
    /\ UNCHANGED <<render, poller, collection, now, store_up, pc, job, local, artifacts, outbox>>

generate_ticket_endpoint == \E d \in GenerateData : AddJobBuild("generate_ticket", d)
verify_ticket_endpoint == \E d \in VerifyData : AddJobBuild("verify_ticket", d)
update_ticket == \E d \in UpdateData : AddJobBuild("update_ticket", d)

\* /generate_ticket called with send_email true.
generate_ticket_with_mail == \E d \in MailData : AddJobBuild("generate_ticket", d)

\* add_job called with a job_type job_processor has no branch for (no
\* endpoint of this module does; add_job takes any job_type).
add_job_other == AddJobBuild("other_job", [payload |-> "-", ticket_number |-> "-",
                                           attendance_data |-> "-"])

\* /generate_ticket called with bodies that fail at one step or another.
generate_ticket_issuance == \E d \in IssuanceData : AddJobBuild("generate_ticket", d)

\* ------------------------------------------------------- job_processor

\* find_one_and_update({"status": "queued"}, ..., sort created_at): the claim.
\* With no queued job the loop sleeps a second and polls again (no change).
ClaimJob(w) ==
    /\ pc[w] = "poll"
    /\ store_up
    /\ \E j \in DOMAIN job_queue_collection :
          /\ FirstQueued(j)
          /\ job_queue_collection' =
                [job_queue_collection EXCEPT ![j].status = "processing"]
          /\ job' = [job EXCEPT ![w] = j]
          /\ pc' = [pc EXCEPT ![w] = Entry(job_queue_collection[j].job_type)]
    /\ UNCHANGED <<render, poller, collection, requests, now, store_up, local, artifacts, outbox>>

Data(w) == job_queue_collection[job[w]].data

Finish(w, result, status_code) ==
    /\ local' = [local EXCEPT ![w].result = result, ![w].status_code = status_code]
    /\ pc' = [pc EXCEPT ![w] = "write"]

\* A job_processor without its try block: the exception ends the thread.
RaisedUncaught(w) ==
    /\ pc' = [pc EXCEPT ![w] = "dead"]
    /\ UNCHANGED local

\* The result of a processing function that raised: {"error": str(e)}, 500.
Raised(w) == Finish(w, Response("exception", FALSE, "-", "-", "-"), 500)

\* process_generate_ticket up to the first lookup of
\* generate_unique_ticket_number: validation, template loading, then one
\* draw whose lookup found no document (a draw that collides loops and
\* changes nothing).
GenerateDraw(w) ==
    /\ pc[w] = "generate"
    /\ CASE ValidationError(Data(w).payload) # "" ->
              Finish(w, Response(ValidationError(Data(w).payload), FALSE, "-", "-", "-"), 400)
         [] Data(w).payload = "raise" -> Raised(w)
         [] OTHER ->
              /\ store_up
              /\ \E candidate \in TicketNumbers :
                    /\ CandidateIsFree(candidate)
                    /\ local' = [local EXCEPT ![w].ticket_number = candidate]
              /\ pc' = [pc EXCEPT ![w] = "save"]
    /\ UNCHANGED <<render, poller, collection, job_queue_collection, requests, now, store_up, job,
                   artifacts, outbox>>

\* A process_generate_ticket that lets the exception of a failed send out.
MailRaises(w, tn, sent) ==
    IF sent
    THEN Finish(w, Response("issued", FALSE, "reg", "Email sent", tn), 200)
    ELSE Raised(w)

\* The status string send_email_with_attachment returns: it catches every
\* exception of the SMTP dialogue and returns the failure as a string.
send_email_with_attachment(sent) ==
    IF sent THEN "Email sent" ELSE "Failed to send email"

\* The response of process_generate_ticket after the mailer returned.
MailReported(w, tn, sent) ==
    Finish(w, Response("issued", FALSE, "reg", send_email_with_attachment(sent), tn), 200)

\* The rest of process_generate_ticket: template_image.save and
\* save_ticket_in_db (the end of generate_ticket_qr), the lookup of the
\* mail credentials, the optional email, the response.
GenerateSave(w) ==
    /\ pc[w] = "save"
    /\ store_up
    /\ LET tn == local[w].ticket_number IN
       /\ artifacts' = artifacts \cup {tn}
       /\ \E t \in ClockReads :
             /\ now' = t
             /\ collection' = Append(collection, TicketDocument(tn, "reg", t))
       /\ CASE Data(w).payload = "late" ->
                 /\ UNCHANGED outbox
                 /\ Raised(w)
            [] SendEmailRequested(Data(w)) /\ HasCredentials(Data(w)) ->
                 \E sent \in BOOLEAN :
                    /\ outbox' = IF sent THEN outbox \cup {tn} ELSE outbox
                    /\ MailReported(w, tn, sent)
            [] OTHER ->
                 /\ UNCHANGED outbox
                 /\ Finish(w, Response("issued", FALSE, "reg", "Not sent", tn), 200)
    /\ UNCHANGED <<render, poller, job_queue_collection, requests, store_up, job>>

\* process_verify_ticket up to its branch on ticket["verified"].
VerifyLoad(w) ==
    /\ pc[w] = "verify"
    /\ store_up
    /\ LET tn == Data(w).ticket_number
           i == load_ticket_by_number(tn) IN
       IF tn = ""
       THEN Finish(w, Response("Missing ticket_number field", FALSE, "-", "-", "-"), 400)
       ELSE IF i = 0
       THEN Finish(w, Response("Ticket not found.", FALSE, "-", "-", "-"), 404)
       ELSE IF TicketVerified(collection[i])
       THEN Finish(w, Response("Ticket already verified.", FALSE,
                               collection[i].ticket_details, "-", "-"), 200)
       ELSE /\ pc' = [pc EXCEPT ![w] = "verify_update"]
            /\ UNCHANGED local
    /\ UNCHANGED <<render, poller, collection, job_queue_collection, requests, now, store_up, job,
                   artifacts, outbox>>

\* process_verify_ticket's else branch: update_ticket_in_db(ticket_number).
VerifyUpdate(w) ==
    /\ pc[w] = "verify_update"
    /\ store_up
    /\ \E t \in ClockReads :
          /\ now' = t
          /\ collection' = update_ticket_in_db(Data(w).ticket_number, "none", t)
    /\ Finish(w, Response("Ticket is verified.", TRUE,
                          collection'[find_one(Data(w).ticket_number)].ticket_details,
                          "-", "-"), 200)
    /\ UNCHANGED <<render, poller, job_queue_collection, requests, store_up, job, artifacts, outbox>>

\* process_update_ticket.
UpdateTicket(w) ==
    /\ pc[w] = "update"
    /\ store_up
    /\ LET tn == Data(w).ticket_number IN
       IF tn = ""
       THEN /\ Finish(w, Response("Missing required field: ticket_number", FALSE,
                                  "-", "-", "-"), 400)
            /\ UNCHANGED <<collection, now>>
       ELSE
       \E t \in ClockReads :
          /\ now' = t
          /\ collection' = update_ticket_in_db(tn, Data(w).attendance_data, t)
          /\ IF find_one(tn) = 0
             THEN Finish(w, Response("Ticket not found.", FALSE, "-", "-", "-"), 404)
             ELSE IF ~collection'[find_one(tn)].verified
             THEN Finish(w, Response("Failed to update the ticket.", FALSE, "-", "-", "-"), 500)
             ELSE Finish(w, Response("Ticket has been updated and marked as verified.",
                                     FALSE, collection'[find_one(tn)].ticket_details,
                                     "-", "-"), 200)
    /\ UNCHANGED <<render, poller, job_queue_collection, requests, store_up, job, artifacts, outbox>>

\* The else branch of job_processor's dispatch.
UnknownJobType(w) ==
    /\ pc[w] = "unknown"
    /\ Finish(w, Response("Unknown job type", FALSE, "-", "-", "-"), 400)
    /\ UNCHANGED <<render, poller, collection, job_queue_collection, requests, now, store_up,
                   job, artifacts, outbox>>

\* job_processor after the try block: the update_one that records the
\* result, then the throttle test.
WriteResult(w) ==
    /\ pc[w] = "write"
    /\ store_up
    /\ LET j == job[w]
           doc == job_queue_collection[j] IN
       /\ job_queue_collection' =
             [job_queue_collection EXCEPT
                 ![j].status = NewStatus(local[w].status_code),
                 ![j].result = local[w].result]
       /\ pc' = [pc EXCEPT ![w] =
                    IF Throttles(doc.job_type, doc.data, local[w].result)
                    THEN "sleep" ELSE "poll"]
    /\ job' = [job EXCEPT ![w] = 0]
    /\ local' = [local EXCEPT ![w] = NoLocal]
    /\ UNCHANGED <<render, poller, collection, requests, now, store_up, artifacts, outbox>>

\* time.sleep(delay) returns.
Wake(w) ==
    /\ pc[w] = "sleep"
    /\ pc' = [pc EXCEPT ![w] = "poll"]
    /\ UNCHANGED <<render, poller, collection, job_queue_collection, requests, now, store_up, job,
                   local, artifacts, outbox>>

\* --------------------------------------------------- generate_ticket_qr

\* One call of generate_ticket_qr, with the ticket_details of the request
\* and the number generate_unique_ticket_number returned.
InitRender ==
    /\ collection = <<>>
    /\ job_queue_collection = <<>>
    /\ requests = {}
    /\ now = 0
    /\ store_up = TRUE
    /\ pc = [w \in Workers |-> "off"]
    /\ job = [w \in Workers |-> 0]
    /\ local = [w \in Workers |-> NoLocal]
    /\ artifacts = {}
    /\ outbox = {}
    /\ poller = NoPoller
    /\ \E d \in DetailMappings, tn \in TicketNumbers :
          render = [at |-> "called", request_details |-> d, ticket_details |-> d,
                    ticket_number |-> <<tn>>, qr_data_str |-> <<>>]

\* ticket_details["ticket_number"] = ticket_number
MergeTicketNumber ==
    /\ render.at = "called"
    /\ render' = [render EXCEPT
                     !.at = "merged",
                     !.ticket_details = DictSet(@, TicketNumberKey, render.ticket_number)]
    /\ UNCHANGED <<poller, collection, job_queue_collection, requests, now, store_up,
                   pc, job, local, artifacts, outbox>>

\* qr_data_str = "\n".join(...)
SerializeDetails ==
    /\ render.at = "merged"
    /\ render' = [render EXCEPT
                     !.at = "serialized",
                     !.qr_data_str = QRData(render.ticket_details)]
    /\ UNCHANGED <<poller, collection, job_queue_collection, requests, now, store_up,
                   pc, job, local, artifacts, outbox>>

NextRender == MergeTicketNumber \/ SerializeDetails

\* ------------------------------------------- generate_ticket_qr: placement

\* Sizes of template images, image_size and qr_config values of requests.
\* A dict is a function on the keys it holds; NoDict is None or {}.
NoDict == [k \in {} |-> 0]
TemplateSizes == {[width |-> 2000, height |-> 647], [width |-> 400, height |-> 300],
                  [width |-> 100, height |-> 100]}
ImageSizes == {NoDict, [width |-> 2000, height |-> 647], [width |-> 400]}
QRConfigs == {NoDict,
              [size |-> 350, offset |-> [x |-> 100, y |-> 200]],
              [size |-> 350, offset |-> [x |-> 100, y |-> 200], rotation |-> 0],
              [size |-> 350, offset |-> [x |-> 100, y |-> 200], rotation |-> 90],
              [size |-> 100, offset |-> [x |-> 0, y |-> 0]],
              [size |-> 350],
              [offset |-> [x |-> 100]],
              [offset |-> [y |-> 10], rotation |-> 180]}

\* d.get(key, default)
Get(d, key, default) == IF key \in DOMAIN d THEN d[key] ELSE default

\* d.update(other)
DictUpdate(d, other) ==
    [k \in DOMAIN d \cup DOMAIN other |-> IF k \in DOMAIN other THEN other[k] ELSE d[k]]

default_qr_config == [size |-> 150, offset |-> [x |-> 50, y |-> 120], rotation |-> 0]

\* A paste at the offset measured from the top-left corner.
PositionFromTopLeft(template_image, qr_image, offset_x, offset_y) ==
    <<offset_x, offset_y>>

\* position of generate_ticket_qr.
Position(template_image, qr_image, offset_x, offset_y) ==
    <<template_image.width - qr_image.width - offset_x,
      template_image.height - qr_image.height - offset_y>>

\* One call of generate_ticket_qr, seen from its images.
InitPlacement ==
    /\ collection = <<>>
    /\ job_queue_collection = <<>>
    /\ requests = {}
    /\ now = 0
    /\ store_up = TRUE
    /\ pc = [w \in Workers |-> "off"]
    /\ job = [w \in Workers |-> 0]
    /\ local = [w \in Workers |-> NoLocal]
    /\ artifacts = {}
    /\ outbox = {}
    /\ poller = NoPoller
    /\ \E t \in TemplateSizes, i \in ImageSizes, q \in QRConfigs :
          render = [at |-> "called", template_image |-> t, image_size |-> i,
                    qr_config |-> q, default_qr_config |-> default_qr_config,
                    qr_image |-> [width |-> 0, height |-> 0],
                    position |-> <<0, 0>>]

\* template_image.resize when image_size holds width and height.
ResizeTemplate ==
    /\ render.at = "called"
    /\ render' = [render EXCEPT
                     !.at = "resized",
                     !.template_image =
                        IF {"width", "height"} \subseteq DOMAIN render.image_size
                        THEN [width |-> render.image_size.width,
                              height |-> render.image_size.height]
                        ELSE @]
    /\ UNCHANGED <<poller, collection, job_queue_collection, requests, now, store_up,
                   pc, job, local, artifacts, outbox>>

\* default_qr_config.update(qr_config) when qr_config is truthy.
ReadQRConfig ==
    /\ render.at = "resized"
    /\ render' = [render EXCEPT
                     !.at = "configured",
                     !.default_qr_config =
                        IF render.qr_config # NoDict
                        THEN DictUpdate(@, render.qr_config) ELSE @]
    /\ UNCHANGED <<poller, collection, job_queue_collection, requests, now, store_up,
                   pc, job, local, artifacts, outbox>>

\* qr_image.resize((qr_size, qr_size)), then rotate(rotation, expand=1) when
\* rotation is not 0: a quarter or half turn of a rectangle swaps or keeps
\* its sides.
MakeQRImage ==
    /\ render.at = "configured"
    /\ LET qr_size == render.default_qr_config.size
           rotation == Get(render.default_qr_config, "rotation", 0)
           resized == [width |-> qr_size, height |-> qr_size] IN
       render' = [render EXCEPT
                     !.at = "qr",
                     !.qr_image =
                        IF rotation = 90
                        THEN [width |-> resized.height, height |-> resized.width]
                        ELSE resized]
    /\ UNCHANGED <<poller, collection, job_queue_collection, requests, now, store_up,
                   pc, job, local, artifacts, outbox>>

\* template_image.paste(qr_image, position)
PasteQR ==
    /\ render.at = "qr"
    /\ LET offset == render.default_qr_config.offset IN
       render' = [render EXCEPT
                     !.at = "pasted",
                     !.position = Position(render.template_image, render.qr_image,
                                           Get(offset, "x", 50), Get(offset, "y", 120))]
    /\ UNCHANGED <<poller, collection, job_queue_collection, requests, now, store_up,
                   pc, job, local, artifacts, outbox>>

NextPlacement == ResizeTemplate \/ ReadQRConfig \/ MakeQRImage \/ PasteQR

\* ------------------------------------------ generate_unique_ticket_number

\* The stores a call may find: documents of distinct numbers, any number of
\* them, every number taken included.
GeneratorStores ==
    {s \in UNION {[1..n -> {TicketDocument(tn, "reg", t) :
                                tn \in TicketNumbers, t \in 0..MaxTime}] :
                      n \in 0..Cardinality(TicketNumbers)} :
        \A i, k \in DOMAIN s : i # k => s[i].ticket_number # s[k].ticket_number}

\* One call of generate_unique_ticket_number; draws counts the passes of
\* its while True loop, up to MaxDraws (the loop itself counts nothing).
InitGenerator ==
    /\ collection \in GeneratorStores
    /\ job_queue_collection = <<>>
    /\ requests = {}
    /\ now = 0
    /\ store_up = TRUE
    /\ pc = [w \in Workers |-> "off"]
    /\ job = [w \in Workers |-> 0]
    /\ local = [w \in Workers |-> NoLocal]
    /\ artifacts = {collection[i].ticket_number : i \in DOMAIN collection}
    /\ outbox = {}
    /\ poller = NoPoller
    /\ render = [at |-> "draw", ticket_number |-> "-", draws |-> 0]

\* ticket_number = ''.join(random.choices(...)): the draw is candidate.
DrawCandidate(candidate) ==
    /\ render.at = "draw"
    /\ render' = [at |-> "lookup", ticket_number |-> candidate,
                  draws |-> IF render.draws < MaxDraws THEN render.draws + 1
                            ELSE render.draws]
    /\ UNCHANGED <<poller, collection, job_queue_collection, requests, now, store_up,
                   pc, job, local, artifacts, outbox>>

\* if not collection.find_one(...): return ticket_number; else loop.
LookupCandidate ==
    /\ render.at = "lookup"
    /\ render' = [render EXCEPT
                     !.at = IF CandidateIsFree(render.ticket_number)
                            THEN "returned" ELSE "draw"]
    /\ UNCHANGED <<poller, collection, job_queue_collection, requests, now, store_up,
                   pc, job, local, artifacts, outbox>>

NextGenerator ==
    \/ \E candidate \in TicketNumbers : DrawCandidate(candidate)
    \/ LookupCandidate

\* --------------------------------------------------------- housekeeping

\* A delete_all_images that clears the ticket collection with the files.
delete_all_images_and_tickets ==
    /\ artifacts # {}
    /\ artifacts' = {}
    /\ collection' = <<>>
    /\ UNCHANGED <<render, poller, job_queue_collection, requests, now, store_up, pc, job,
                   local, outbox>>

\* POST /delete_all_images: os.remove on every file of QR_GENERATED; an
\* os.remove that raises ends the loop with the remaining files kept.
delete_all_images ==
    /\ artifacts # {}
    /\ \E kept \in SUBSET artifacts :
          /\ kept # artifacts
          /\ artifacts' = kept
    /\ UNCHANGED <<render, poller, collection, job_queue_collection, requests, now, store_up,
                   pc, job, local, outbox>>

\* ------------------------------------------------------- store outages

\* MongoDB becomes unreachable: every pymongo call raises from now on.
StoreGoesDown ==
    /\ store_up
    /\ store_up' = FALSE
    /\ UNCHANGED <<render, poller, collection, job_queue_collection, requests, now, pc, job, local,
                   artifacts, outbox>>

StoreComesBack ==
    /\ ~store_up
    /\ store_up' = TRUE
    /\ UNCHANGED <<render, poller, collection, job_queue_collection, requests, now, pc, job, local,
                   artifacts, outbox>>

\* add_job's insert_one raises: the request ends in a 500, no job is stored.
AddJobFails(r) ==
    /\ r \in requests
    /\ ~store_up
    /\ requests' = requests \ {r}
    /\ UNCHANGED <<render, poller, collection, job_queue_collection, now, store_up, pc, job, local,
                   artifacts, outbox>>

\* job_processor's find_one_and_update raises: it is outside the try block,
\* so the exception leaves the while loop and the thread ends.
ClaimFails(w) ==
    /\ pc[w] = "poll"
    /\ ~store_up
    /\ pc' = [pc EXCEPT ![w] = "dead"]
    /\ UNCHANGED <<render, poller, collection, job_queue_collection, requests, now, store_up, job,
                   local, artifacts, outbox>>

\* A store call inside a processing function raises: the try block of
\* job_processor catches it.  At "save" the image file is written before
\* insert_one raises.
ProcessingStoreFails(w) ==
    /\ \/ pc[w] \in {"save", "verify", "verify_update", "update"}
       \/ /\ pc[w] = "generate"
          /\ ValidationError(Data(w).payload) = ""
          /\ Data(w).payload # "raise"
    /\ ~store_up
    /\ Raised(w)
    /\ artifacts' = IF pc[w] = "save" THEN artifacts \cup {local[w].ticket_number}
                    ELSE artifacts
    /\ UNCHANGED <<render, poller, collection, job_queue_collection, requests, now, store_up, job,
                   outbox>>

\* job_processor's update_one raises: outside the try block as well; the
\* thread ends and the job document stays as the claim left it.
WriteFails(w) ==
    /\ pc[w] = "write"
    /\ ~store_up
    /\ pc' = [pc EXCEPT ![w] = "dead"]
    /\ UNCHANGED <<render, poller, collection, job_queue_collection, requests, now, store_up, job,
                   local, artifacts, outbox>>

\* ------------------------------------------------------ process restarts

\* The server process ends (killed, or its thread ended by an exception
\* outside the try block): the daemon thread stops where it is, its locals
\* are gone.
WorkerStops(w) ==
    /\ pc[w] \notin {"off", "dead"}
    /\ pc' = [pc EXCEPT ![w] = "dead"]
    /\ job' = [job EXCEPT ![w] = 0]
    /\ local' = [local EXCEPT ![w] = NoLocal]
    /\ UNCHANGED <<render, poller, collection, job_queue_collection, requests, now, store_up,
                   artifacts, outbox>>

\* The server is started again: the module starts a new job_processor
\* thread, which begins at the top of its loop.
WorkerStarts(w) ==
    /\ pc[w] = "off"
    /\ \A v \in Workers : pc[v] \in {"off", "dead"}
    /\ pc' = [pc EXCEPT ![w] = "poll"]
    /\ UNCHANGED <<render, poller, collection, job_queue_collection, requests, now, store_up,
                   job, local, artifacts, outbox>>


\* ------------------------------------------ the spreadsheet poller (main.py)

\* sheet_configs.csv: two configurations that name the same registration
\* sheet; templates/T.png exists, templates/M.png does not.
sheet_configs == <<[template_id |-> <<"T">>], [template_id |-> <<"M">>]>>
TemplateFiles == {<<"T">>}

\* Rows of the input sheet, strings as sequences of characters. Two of
\* them differ in Name and Roll-No and still format to the same
\* unique_key; one has a blank EMAIL; one has a Roll-No of digits only.
Digits == {"7"}
Rows ==
    { [Name |-> <<"a">>,           RollNo |-> <<"c">>,           EMAIL |-> <<"e">>],
      [Name |-> <<"a">>,           RollNo |-> <<"b", "_", "c">>, EMAIL |-> <<"e">>],
      [Name |-> <<"a", "_", "b">>, RollNo |-> <<"c">>,           EMAIL |-> <<"e">>],
      [Name |-> <<"a">>,           RollNo |-> <<"c">>,           EMAIL |-> <<" ">>],
      [Name |-> <<"a">>,           RollNo |-> <<"7">>,           EMAIL |-> <<"e">>] }

\* get_all_records hands a cell of digits over as an int, which has no
\* strip(): is_valid_row raises on such a row.
Numericised(value) == value # <<>> /\ \A i \in DOMAIN value : value[i] \in Digits
StripRaises(row) ==
    Numericised(row.Name) \/ Numericised(row.RollNo) \/ Numericised(row.EMAIL)

\* value.strip() is empty
Blank(value) == \A i \in DOMAIN value : value[i] = " "
is_valid_row(row) == ~Blank(row.Name) /\ ~Blank(row.RollNo) /\ ~Blank(row.EMAIL)

\* unique_key = f"{template_id}_{row['Name']}_{row['Roll-No']}_{row['EMAIL']}"
unique_key(template_id, row) ==
    template_id \o <<"_">> \o row.Name \o <<"_">> \o row.RollNo \o <<"_">> \o row.EMAIL

\* processed_ids.add(unique_key), and what forgets to.
processed_ids_keep(processed_ids, key) == processed_ids
processed_ids_add(processed_ids, key) == processed_ids \cup {key}

\* os.path.exists(template_path)
TemplateExists(template_id) == template_id \in TemplateFiles

\* main() up to its loop: processed_ids = set(), existing_keys loaded from
\* ticket_keys.csv (empty, or holding the number an earlier run issued); the
\* form behind the sheet has no response yet.
InitPoller ==
    /\ collection = <<>>
    /\ job_queue_collection = <<>>
    /\ requests = {}
    /\ now = 0
    /\ store_up = TRUE
    /\ pc = [w \in Workers |-> "off"]
    /\ job = [w \in Workers |-> 0]
    /\ local = [w \in Workers |-> NoLocal]
    /\ artifacts = {}
    /\ outbox = {}
    /\ render = NoRender
    /\ \E keys \in {{}, {"A"}} :
          poller = [at |-> "open", config |-> 1, row |-> 0, passes |-> 0,
                    sheet |-> <<>>, processed_ids |-> {}, existing_keys |-> keys,
                    key_file |-> keys, ticket_number |-> "-", files |-> {},
                    output_sheet |-> <<>>, generated |-> <<>>, sent |-> <<>>,
                    log |-> <<>>]

PollerFrame ==
    UNCHANGED <<collection, job_queue_collection, requests, now, store_up, pc, job,
                local, artifacts, outbox, render>>

\* Where the loops of process_sheet and main go after the row at hand:
\* the next row, the next configuration, or time.sleep.
AfterRow(p) ==
    IF p.row < Len(p.sheet) THEN [p EXCEPT !.at = "row", !.row = p.row + 1]
    ELSE IF p.config < Len(sheet_configs)
         THEN [p EXCEPT !.at = "open", !.config = p.config + 1, !.row = 0]
         ELSE [p EXCEPT !.at = "sleep", !.row = 0]

\* except Exception in main: the pass ends where it is.
PassAborted(p) == [p EXCEPT !.at = "sleep", !.row = 0]

\* Someone submits the form: the sheet gains a row. process_sheet reads the
\* sheet once, in get_all_records, so a row that arrives while rows are
\* being handled is one that arrives before the next get_all_records.
RowAdded ==
    /\ poller.at = "open"
    /\ Len(poller.sheet) < MaxRows
    /\ \E r \in Rows : poller' = [poller EXCEPT !.sheet = Append(@, r)]
    /\ PollerFrame

\* process_sheet up to its loop: open_by_url and get_all_records answer
\* (an empty sheet returns at once) or raise.
OpenSheet ==
    /\ poller.at = "open"
    /\ \E answers \in BOOLEAN :
          poller' = IF ~answers THEN PassAborted(poller)
                    ELSE AfterRow([poller EXCEPT !.row = 0])
    /\ PollerFrame

Logged(p, what) == [p EXCEPT !.log = Append(@, what)]

\* generate_ticket_qr for a row whose template exists. The image is opened
\* and saved and the key is appended to ticket_keys.csv; either file
\* operation may raise, the second after the image is written.
generate_ticket_qr(p, template_id, row, tn) ==
    LET image == <<row.RollNo, tn>>
        ticket == [template_id |-> template_id, row |-> row, ticket_number |-> tn]
    IN  \E fault \in {"none", "image", "key_file"} :
          poller' =
            CASE fault = "image" -> PassAborted(Logged(p, "raised"))
              [] fault = "key_file" ->
                    PassAborted(Logged([p EXCEPT !.files = @ \cup {image}], "raised"))
              [] OTHER ->
                    Logged([p EXCEPT
                              !.at = "append",
                              !.files = @ \cup {image},
                              !.key_file = @ \cup {tn},
                              !.ticket_number = tn,
                              !.generated = Append(@, ticket),
                              !.processed_ids =
                                  processed_ids_add(@, unique_key(template_id, row)),
                              !.existing_keys = @ \cup {tn}], "generated")

\* One turn of the loop of process_sheet, up to processed_ids.add and
\* existing_keys.add. generate_ticket_qr draws its ticket number before it
\* looks for the template, and the draw never returns when every number is
\* in existing_keys.
RowStep ==
    /\ poller.at = "row"
    /\ LET template_id == sheet_configs[poller.config].template_id
           row == poller.sheet[poller.row]
       IN  CASE StripRaises(row) -> poller' = PassAborted(Logged(poller, "raised"))
             [] ~StripRaises(row) /\ ~is_valid_row(row) ->
                    poller' = AfterRow(Logged(poller, "invalid"))
             [] ~StripRaises(row) /\ is_valid_row(row)
                  /\ unique_key(template_id, row) \in poller.processed_ids ->
                    poller' = AfterRow(Logged(poller, "skipped"))
             [] OTHER ->
                    \E tn \in TicketNumbers \ poller.existing_keys :
                        IF ~TemplateExists(template_id)
                        THEN poller' = AfterRow(Logged(poller, "no_template"))
                        ELSE generate_ticket_qr(poller, template_id, row, tn)
    /\ PollerFrame

\* output_sheet.append_row answers or raises.
AppendRow ==
    /\ poller.at = "append"
    /\ LET row == poller.sheet[poller.row] IN
       \E answers \in BOOLEAN :
          poller' = IF ~answers THEN PassAborted(poller)
                    ELSE [poller EXCEPT
                            !.at = "mail",
                            !.output_sheet =
                                Append(@, <<row.Name, row.RollNo, row.EMAIL,
                                            poller.ticket_number>>)]
    /\ PollerFrame

\* send_email_with_attachment of main.py: the message is sent, or the
\* exception is caught and printed; the loop goes on either way.
SendMail ==
    /\ poller.at = "mail"
    /\ LET ticket == [template_id |-> sheet_configs[poller.config].template_id,
                      row |-> poller.sheet[poller.row],
                      ticket_number |-> poller.ticket_number]
       IN  \E accepted \in BOOLEAN :
              poller' = AfterRow(IF accepted
                                 THEN [poller EXCEPT !.sent = Append(@, ticket)]
                                 ELSE poller)
    /\ PollerFrame

\* time.sleep, then the next pass of while True.
Sleep ==
    /\ poller.at = "sleep"
    /\ poller.passes < MaxPasses
    /\ poller' = [poller EXCEPT !.at = "open", !.config = 1, !.row = 0,
                                !.passes = @ + 1, !.log = <<>>]
    /\ PollerFrame

NextPoller == RowAdded \/ OpenSheet \/ RowStep \/ AppendRow \/ SendMail \/ Sleep

\* ----------------------------------------------------------------- Next

Next ==
    \/ generate_ticket_endpoint
    \/ verify_ticket_endpoint
    \/ update_ticket
    \/ \E r \in requests : AddJobInsert(r)
    \/ \E w \in Workers : ClaimJob(w)
    \/ \E w \in Workers : GenerateDraw(w)
    \/ \E w \in Workers : GenerateSave(w)
    \/ \E w \in Workers : VerifyLoad(w)
    \/ \E w \in Workers : VerifyUpdate(w)
    \/ \E w \in Workers : UpdateTicket(w)
    \/ \E w \in Workers : WriteResult(w)

NextWithOutages ==
    \/ Next
    \/ StoreGoesDown
    \/ StoreComesBack
    \/ \E r \in requests : AddJobFails(r)
    \/ \E w \in Workers : ClaimFails(w)
    \/ \E w \in Workers : ProcessingStoreFails(w)
    \/ \E w \in Workers : WriteFails(w)

\* The server used for mailing tickets: generate requests ask for the
\* email, the throttle sleep of the worker is visible.
NextMail ==
    \/ generate_ticket_with_mail
    \/ verify_ticket_endpoint
    \/ update_ticket
    \/ \E r \in requests : AddJobInsert(r)
    \/ \E w \in Workers : ClaimJob(w)
    \/ \E w \in Workers : GenerateDraw(w)
    \/ \E w \in Workers : GenerateSave(w)
    \/ \E w \in Workers : VerifyLoad(w)
    \/ \E w \in Workers : VerifyUpdate(w)
    \/ \E w \in Workers : UpdateTicket(w)
    \/ \E w \in Workers : WriteResult(w)
    \/ \E w \in Workers : Wake(w)

\* Every outcome a job can have: bodies that fail validation or raise,
\* tickets that are missing or verified, a job_type without a branch.
NextOutcomes ==
    \/ generate_ticket_issuance
    \/ verify_ticket_endpoint
    \/ update_ticket
    \/ add_job_other
    \/ \E r \in requests : AddJobInsert(r)
    \/ \E w \in Workers : ClaimJob(w)
    \/ \E w \in Workers : GenerateDraw(w)
    \/ \E w \in Workers : GenerateSave(w)
    \/ \E w \in Workers : VerifyLoad(w)
    \/ \E w \in Workers : VerifyUpdate(w)
    \/ \E w \in Workers : UpdateTicket(w)
    \/ \E w \in Workers : UnknownJobType(w)
    \/ \E w \in Workers : WriteResult(w)

\* Issuance alone: generate requests of every kind of body.
NextIssuance ==
    \/ generate_ticket_issuance
    \/ \E r \in requests : AddJobInsert(r)
    \/ \E w \in Workers : ClaimJob(w)
    \/ \E w \in Workers : GenerateDraw(w)
    \/ \E w \in Workers : GenerateSave(w)
    \/ \E w \in Workers : WriteResult(w)

\* The server with its housekeeping endpoint in use.
NextHousekeeping ==
    \/ Next
    \/ delete_all_images

\* The server stopped and started again at any time.
NextRestart ==
    \/ Next
    \/ \E w \in Workers : WorkerStops(w)
    \/ \E w \in Workers : WorkerStarts(w)

\* One server process, MongoDB always reachable.
Spec == Init /\ [][Next]_vars

\* Two job_processor loops on one job_queue collection.
SpecTwoWorkers == InitTwoWorkers /\ [][Next]_vars

\* One server process, MongoDB going down and coming back at any time.
SpecOutages == Init /\ [][NextWithOutages]_vars

\* One server process, requests with send_email.
SpecMail == Init /\ [][NextMail]_vars

\* One server process, generated images deleted at any time.
SpecHousekeeping == Init /\ [][NextHousekeeping]_vars

\* One server process that may end, and a second one started after it.
SpecRestart == Init /\ [][NextRestart]_vars

\* One server process, jobs of every outcome.
SpecOutcomes == Init /\ [][NextOutcomes]_vars

\* One server process, generate requests only.
SpecIssuance == Init /\ [][NextIssuance]_vars

\* One step of the job_processor loop w, whichever it is.
WorkerStep(w) ==
    \/ ClaimJob(w)
    \/ GenerateDraw(w)
    \/ GenerateSave(w)
    \/ VerifyLoad(w)
    \/ VerifyUpdate(w)
    \/ UpdateTicket(w)
    \/ WriteResult(w)

\* One server process whose job_processor thread keeps being scheduled and
\* whose calls (store, files) return: a step of the loop that stays
\* possible is taken.
SpecFair == InitFair /\ [][Next]_vars /\ \A w \in Workers : WF_vars(WorkerStep(w))

\* generate_unique_ticket_number on its own, with fair random draws: the
\* lookup returns, and a number that keeps being possible is drawn at some
\* time.
SpecGenerator ==
    /\ InitGenerator
    /\ [][NextGenerator]_vars
    /\ WF_vars(LookupCandidate)
    /\ \A candidate \in TicketNumbers : SF_vars(DrawCandidate(candidate))

\* generate_ticket_qr on its own, for every ticket_details of the bounds.
SpecRender == InitRender /\ [][NextRender]_vars

\* generate_ticket_qr on its own, for the image sizes and QR configurations.
SpecPlacement == InitPlacement /\ [][NextPlacement]_vars

\* main.py polling its sheet, pass after pass.
SpecPoller == InitPoller /\ [][NextPoller]_vars

\* --------------------------------------------------------------- claims

Terminal(status) == status \in {"completed", "error"}

JobsOf(job_type) ==
    {j \in DOMAIN job_queue_collection : job_queue_collection[j].job_type = job_type}

TicketNumbersDistinct ==
    \A i, k \in DOMAIN collection :
        i # k => collection[i].ticket_number # collection[k].ticket_number

\* The step in which a worker's generate job inserts its ticket and builds
\* the response carrying the ticket number.
IssuedNumberFresh ==
    \A w \in Workers :
        (pc[w] = "save" /\ pc'[w] = "write" /\ local'[w].status_code = 200) =>
            LET tn == local'[w].result.ticket_number IN
            /\ \A i \in DOMAIN collection : collection[i].ticket_number # tn
            /\ \E i \in DOMAIN collection' : collection'[i].ticket_number = tn

(* C1: with one worker draining the queue, whatever generate_ticket requests
   the HTTP handlers enqueue and however they interleave, no two ticket
   documents have the same ticket_number, and the number a successful
   issuance returns was in no document before the issuance and is in one
   after it. *)
C1_TicketNumberUnique == []TicketNumbersDistinct /\ [][IssuedNumberFresh]_vars

\* Two generate jobs completed and returned different numbers, both stored.
C1_Witness ==
    \E j, k \in JobsOf("generate_ticket") :
        /\ j # k
        /\ job_queue_collection[j].status = "completed"
        /\ job_queue_collection[k].status = "completed"
        /\ job_queue_collection[j].result.ticket_number
              # job_queue_collection[k].result.ticket_number
        /\ \A n \in {j, k} : \E i \in DOMAIN collection :
              collection[i].ticket_number = job_queue_collection[n].result.ticket_number

(* C2: a ticket document that has verified = TRUE has verified = TRUE after
   every step of every handler and job: verified never reverts. *)
C2_VerifiedNeverReverts ==
    [][\A i \in DOMAIN collection :
          collection[i].verified =>
              (i \in DOMAIN collection' /\ collection'[i].verified)]_vars

\* A verify job verified a ticket and an update job then ran on it.
C2_Witness ==
    \E i \in DOMAIN collection :
        /\ collection[i].verified
        /\ \E j \in JobsOf("verify_ticket"), k \in JobsOf("update_ticket") :
              /\ job_queue_collection[j].data.ticket_number = collection[i].ticket_number
              /\ job_queue_collection[k].data.ticket_number = collection[i].ticket_number
              /\ job_queue_collection[j].status = "completed"
              /\ job_queue_collection[j].result.valid
              /\ job_queue_collection[k].status = "completed"

(* C3: in every reachable state, every ticket document has a non-null
   attendance_date_time exactly when its verified flag is true. *)
C3_AttendanceIffVerified ==
    \A i \in DOMAIN collection :
        (collection[i].attendance_date_time # NoTime) <=> collection[i].verified

\* The store holds a verified ticket (by a job) and an unverified one.
C3_Witness ==
    /\ \E i \in DOMAIN collection :
          collection[i].verified /\ collection[i].attendance_date_time # NoTime
    /\ \E i \in DOMAIN collection :
          ~collection[i].verified /\ collection[i].attendance_date_time = NoTime
    /\ \E j \in DOMAIN job_queue_collection :
          job_queue_collection[j].status = "completed"

\* The steps of process_verify_ticket, for the worker running it.
VerifyIsIdempotent ==
    \A w \in Workers :
        LET tn == Data(w).ticket_number
            i == find_one(tn) IN
        \* the first verify: the ticket is still unverified when it is updated,
        \* the update sets both fields, the result is Valid
        /\ (pc[w] = "verify" /\ pc'[w] # "verify" /\ i # 0 /\ ~collection[i].verified) =>
              /\ pc'[w] = "verify_update"
              /\ collection' = collection
        /\ (pc[w] = "verify_update" /\ pc'[w] # "verify_update") =>
              /\ i # 0
              /\ ~collection[i].verified
              /\ collection'[i].verified
              /\ collection'[i].attendance_date_time = now'
              /\ now' # NoTime
              /\ pc'[w] = "write"
              /\ local'[w].status_code = 200
              /\ local'[w].result.valid
              /\ local'[w].result.message = "Ticket is verified."
        \* a later verify: AlreadyVerified with the current details, and the
        \* store is left as it was
        /\ (pc[w] = "verify" /\ pc'[w] # "verify" /\ i # 0 /\ collection[i].verified) =>
              /\ collection' = collection
              /\ pc'[w] = "write"
              /\ local'[w].status_code = 200
              /\ ~local'[w].result.valid
              /\ local'[w].result.message = "Ticket already verified."
              /\ local'[w].result.ticket_details = collection[i].ticket_details

(* C4: with one worker, a verify job on a ticket that is not verified sets
   verified and attendance_date_time and reports "Ticket is verified."
   (valid); a verify job on a ticket that is verified reports "Ticket already
   verified." (valid = false, the current details) and leaves
   attendance_date_time and the whole document unchanged. *)
C4_VerifyIdempotent == [][VerifyIsIdempotent]_vars

\* One verify job verified the ticket, a second one found it verified.
C4_Witness ==
    \E j, k \in JobsOf("verify_ticket") :
        /\ job_queue_collection[j].data.ticket_number
              = job_queue_collection[k].data.ticket_number
        /\ job_queue_collection[j].status = "completed"
        /\ job_queue_collection[j].result.message = "Ticket is verified."
        /\ job_queue_collection[k].status = "completed"
        /\ job_queue_collection[k].result.message = "Ticket already verified."

(* C5: when two verify jobs for the same unverified ticket are processed by
   two workers, at most one of them performs the transition and reports
   valid: no ticket number has two verify jobs whose result is valid. *)
C5_AtMostOneVerification ==
    \A tn \in TicketNumbers :
        Cardinality({j \in JobsOf("verify_ticket") :
                        /\ job_queue_collection[j].data.ticket_number = tn
                        /\ job_queue_collection[j].result.valid}) <= 1

StatusStep(s, t) ==
    \/ s = t
    \/ s = "queued" /\ t = "processing"
    \/ s = "processing" /\ t \in {"completed", "error"}

(* C6: every job starts queued and its status only moves queued ->
   processing -> completed or error: no step skips processing, goes back,
   leaves a terminal status or removes a job. *)
C6_StatusMonotonic ==
    [][/\ Len(job_queue_collection') >= Len(job_queue_collection)
       /\ \A j \in DOMAIN job_queue_collection :
             StatusStep(job_queue_collection[j].status, job_queue_collection'[j].status)
       /\ \A j \in DOMAIN job_queue_collection' \ DOMAIN job_queue_collection :
             job_queue_collection'[j].status = "queued"]_vars

\* One job went all the way to completed and another to error.
C6_Witness ==
    \E j, k \in DOMAIN job_queue_collection :
        /\ job_queue_collection[j].status = "completed"
        /\ job_queue_collection[k].status = "error"

(* C7: with two job_processor loops polling the same job_queue collection,
   no job is held by both: the jobs two workers are processing are
   different, and a job a worker holds has status processing. *)
C7_OneWorkerPerJob ==
    /\ \A w1, w2 \in Workers :
          (w1 # w2 /\ job[w1] # 0) => job[w1] # job[w2]
    /\ \A w \in Workers :
          job[w] # 0 => job_queue_collection[job[w]].status = "processing"

\* Both workers are processing a job at the same time.
C7_Witness ==
    \A w \in Workers : job[w] # 0 /\ pc[w] \notin {"poll", "off", "dead"}

(* C8: jobs reach a terminal status in the order insert_one put them into
   the queue, however the handlers that enqueued them interleaved: a job
   that is completed or error has no job inserted before it that is still
   queued or processing.  Stated for jobs whose created_at differ (the sort
   leaves the order of equal keys open, which is not held against the
   claim). *)
C8_StrictFIFO ==
    \A i, k \in DOMAIN job_queue_collection :
        (/\ i < k
         /\ job_queue_collection[i].created_at # job_queue_collection[k].created_at
         /\ Terminal(job_queue_collection[k].status)) =>
            Terminal(job_queue_collection[i].status)

\* The steps of job_processor around a processing function that raises.
ExceptionIsCaught ==
    \A w \in Workers :
        /\ (pc[w] = "generate" /\ Data(w).payload = "raise" /\ pc'[w] # "generate") =>
              /\ pc'[w] = "write"
              /\ local'[w].status_code = 500
              /\ local'[w].result.message = "exception"
        /\ (pc[w] = "write" /\ local[w].result.message = "exception" /\ pc'[w] # "write") =>
              /\ job_queue_collection'[job[w]].status = "error"
              /\ job_queue_collection'[job[w]].result = local[w].result
              /\ pc'[w] = "poll"

(* C9: when a job's processing function raises, the job ends with status
   error and the exception detail as its result, and the worker is back at
   polling for the next job: the loop never ends. *)
C9_ExceptionMarksError ==
    /\ [](\A w \in Workers : pc[w] # "dead")
    /\ [][ExceptionIsCaught]_vars

\* A job ended in error with the exception as its result, and the worker
\* has claimed the job after it.
C9_Witness ==
    \E j, k \in DOMAIN job_queue_collection :
        /\ job_queue_collection[j].status = "error"
        /\ job_queue_collection[j].result.message = "exception"
        /\ job_queue_collection[k].status = "processing"
        /\ job["w1"] = k

(* C10: a store outage at any store access of the worker never ends the
   worker loop: no job_processor thread is ever dead. *)
C10_WorkerSurvivesOutage == \A w \in Workers : pc[w] # "dead"

\* The step in which the worker starts its throttle sleep.
ThrottleOnlyAfterSentMail ==
    \A w \in Workers :
        (pc[w] = "write" /\ pc'[w] = "sleep") =>
            /\ job_queue_collection[job[w]].job_type = "generate_ticket"
            /\ local[w].result.email_status = "Email sent"
            /\ local[w].result.ticket_number \in outbox

(* C11: the worker starts its throttle sleep only after a generate_ticket
   job whose email the mailer actually sent: never after a verify or update
   job, after a failed send, or after a generate job that asked for an email
   and dispatched none (email_status "Not sent"). *)
C11_ThrottleOnlyAfterSend == [][ThrottleOnlyAfterSentMail]_vars

\* The save step of a generate job whose send was attempted and failed.
MailFailureKeepsTicket ==
    \A w \in Workers :
        (/\ pc[w] = "save" /\ pc'[w] # "save"
         /\ SendEmailRequested(Data(w)) /\ HasCredentials(Data(w))
         /\ local[w].ticket_number \notin outbox') =>
            /\ pc'[w] = "write"
            /\ local'[w].status_code = 200
            /\ local'[w].result.ticket_number = local[w].ticket_number
            /\ local'[w].result.email_status = "Failed to send email"
            /\ \E i \in DOMAIN collection' :
                  collection'[i].ticket_number = local[w].ticket_number

\* A job whose result reports the failed send is completed, carries the
\* ticket number, and the ticket document is in the store.
MailFailureJobCompleted ==
    \A j \in JobsOf("generate_ticket") :
        job_queue_collection[j].result.email_status = "Failed to send email" =>
            /\ job_queue_collection[j].status = "completed"
            /\ job_queue_collection[j].result.ticket_number \in TicketNumbers
            /\ \E i \in DOMAIN collection :
                  collection[i].ticket_number = job_queue_collection[j].result.ticket_number

(* C12: when the mailer fails during a generate job, the ticket document
   stays in the store, the job ends completed with the ticket number in its
   result, and the failure shows only in the email_status string. *)
C12_MailFailureKeepsTicket ==
    /\ []MailFailureJobCompleted
    /\ [][MailFailureKeepsTicket]_vars

\* A generate job ended completed with a failed send and no email out.
C12_Witness ==
    \E j \in JobsOf("generate_ticket") :
        /\ job_queue_collection[j].status = "completed"
        /\ job_queue_collection[j].result.email_status = "Failed to send email"
        /\ job_queue_collection[j].result.ticket_number \notin outbox

\* The step in which a generate job's processing function returns or raises.
IssuanceAllOrNothing ==
    \A w \in Workers :
        (pc[w] \in {"generate", "save"} /\ pc'[w] = "write") =>
            \/ /\ local'[w].status_code = 200
               /\ Len(collection') = Len(collection) + 1
               /\ SubSeq(collection', 1, Len(collection)) = collection
               /\ collection'[Len(collection')].ticket_number
                     = local'[w].result.ticket_number
               /\ local'[w].result.ticket_number \in artifacts'
            \/ /\ local'[w].status_code # 200
               /\ collection' = collection

\* A completed generate job has its artifact and exactly one document.
IssuedTicketStored ==
    \A j \in JobsOf("generate_ticket") :
        job_queue_collection[j].status = "completed" =>
            /\ job_queue_collection[j].result.ticket_number \in artifacts
            /\ Cardinality({i \in DOMAIN collection :
                    collection[i].ticket_number
                        = job_queue_collection[j].result.ticket_number}) = 1

(* C13: every generate_ticket job either ends completed with an artifact and
   exactly one new ticket document, or ends in error having inserted no
   ticket document, whichever step of processing fails (validation,
   template load, save, mail setup, URL building). *)
C13_IssuanceAllOrNothing ==
    /\ []IssuedTicketStored
    /\ [][IssuanceAllOrNothing]_vars

\* The steps of a generate job whose body fails validation.
ValidationFailsCleanly ==
    \A w \in Workers :
        (/\ job[w] # 0
         /\ job_queue_collection[job[w]].job_type = "generate_ticket"
         /\ Data(w).payload \in {"noemail", "notemplate"}) =>
            /\ (pc[w] = "generate" /\ pc'[w] # "generate") =>
                  /\ pc'[w] = "write"
                  /\ local'[w].status_code = 400
                  /\ local'[w].result.message =
                        (IF Data(w).payload = "noemail"
                         THEN "Missing required field: email"
                         ELSE "Template image not found")
                  /\ UNCHANGED <<collection, artifacts, outbox>>
            /\ (pc[w] = "write" /\ pc'[w] # "write") =>
                  /\ job_queue_collection'[job[w]].status = "error"
                  /\ job_queue_collection'[job[w]].result = local[w].result
                  /\ UNCHANGED <<collection, artifacts, outbox>>

\* A terminal job with such a body is in error and its result is the
\* validation message, with no ticket number.
InvalidBodyEndsInError ==
    \A j \in JobsOf("generate_ticket") :
        (/\ job_queue_collection[j].data.payload \in {"noemail", "notemplate"}
         /\ job_queue_collection[j].status \notin {"queued", "processing"}) =>
            /\ job_queue_collection[j].status = "error"
            /\ job_queue_collection[j].result.message
                  \in {"Missing required field: email", "Template image not found"}
            /\ job_queue_collection[j].result.ticket_number = "-"

(* C18: a generate_ticket job whose body has no non-blank email, or whose
   template source is missing or cannot be retrieved, ends in status error
   with a result naming the problem, and its processing inserts no ticket
   document, writes no artifact and sends no email. *)
C18_InvalidBodyRejected ==
    /\ []InvalidBodyEndsInError
    /\ [][ValidationFailsCleanly]_vars

\* A job without email and a job without template both ended in error, and
\* the store and the output folder are as they started.
C18_Witness ==
    /\ \E j, k \in JobsOf("generate_ticket") :
          /\ job_queue_collection[j].data.payload = "noemail"
          /\ job_queue_collection[k].data.payload = "notemplate"
          /\ job_queue_collection[j].status = "error"
          /\ job_queue_collection[k].status = "error"
    /\ collection = <<>>
    /\ artifacts = {}
    /\ outbox = {}

\* The steps of a verify or update job that names a ticket number no
\* document has.
NotFoundLeavesStore ==
    \A w \in Workers :
        LET tn == Data(w).ticket_number IN
        /\ (/\ pc[w] \in {"verify", "update"} /\ pc'[w] # pc[w]
            /\ tn # "" /\ find_one(tn) = 0) =>
              /\ pc'[w] = "write"
              /\ local'[w].status_code = 404
              /\ local'[w].result.message = "Ticket not found."
              /\ collection' = collection
        /\ (pc[w] = "write" /\ local[w].status_code = 404 /\ pc'[w] # "write") =>
              /\ job_queue_collection'[job[w]].status = "error"
              /\ job_queue_collection'[job[w]].result.message = "Ticket not found."
              /\ collection' = collection

(* C14: a verify or update job that names a ticket number not in the store
   reports "Ticket not found." (404) and leaves the ticket store unchanged:
   no document is created or modified. *)
C14_NotFoundLeavesStore == [][NotFoundLeavesStore]_vars

\* A verify job and an update job both reported NotFound on an empty store.
C14_Witness ==
    /\ collection = <<>>
    /\ \E j \in JobsOf("verify_ticket"), k \in JobsOf("update_ticket") :
          /\ job_queue_collection[j].status = "error"
          /\ job_queue_collection[j].result.message = "Ticket not found."
          /\ job_queue_collection[k].status = "error"
          /\ job_queue_collection[k].result.message = "Ticket not found."

\* The step of an update job on a ticket that exists.
UpdateReplacesDetails ==
    \A w \in Workers :
        LET tn == Data(w).ticket_number
            i == find_one(tn) IN
        (pc[w] = "update" /\ pc'[w] # "update" /\ tn # "" /\ i # 0) =>
            /\ collection'[i].verified
            /\ collection'[i].ticket_details = Data(w).attendance_data

(* C15: an update job on an existing ticket replaces the ticket's details
   with the supplied attendance_data, for every attendance_data value
   including an empty mapping, and sets verified. *)
C15_UpdateReplacesDetails == [][UpdateReplacesDetails]_vars

\* The steps of process_verify_ticket seen from the store.
VerifyFrame ==
    \A w \in Workers :
        LET tn == Data(w).ticket_number
            i == find_one(tn) IN
        (pc[w] \in {"verify", "verify_update"} /\ pc'[w] # pc[w]) =>
            /\ Len(collection') = Len(collection)
            /\ \A k \in DOMAIN collection :
                  IF k = i
                  THEN /\ collection'[k].ticket_number = collection[k].ticket_number
                       /\ collection'[k].timestamp = collection[k].timestamp
                       /\ collection'[k].ticket_details = collection[k].ticket_details
                  ELSE collection'[k] = collection[k]

(* C16: a verify job changes at most the verified flag and the
   attendance_date_time of the one ticket it names: that ticket's
   ticket_number, timestamp and ticket_details, and every other ticket
   document, are unchanged by each of its steps. *)
C16_VerifyFrame == [][VerifyFrame]_vars

\* A verify job verified one ticket while the store held another one.
C16_Witness ==
    /\ Len(collection) = 2
    /\ \E j \in JobsOf("verify_ticket") :
          /\ job_queue_collection[j].status = "completed"
          /\ job_queue_collection[j].result.valid
    /\ \E i, k \in DOMAIN collection :
          collection[i].verified /\ ~collection[k].verified

\* The step in which a job calls update_ticket_in_db on a verified ticket.
MarkVerifiedIsNoOp ==
    \A w \in Workers :
        LET tn == Data(w).ticket_number
            i == find_one(tn) IN
        (/\ pc[w] \in {"verify_update", "update"} /\ pc'[w] # pc[w]
         /\ tn # "" /\ i # 0 /\ collection[i].verified) =>
            /\ collection' = collection
            /\ local'[w].result.ticket_details = collection[i].ticket_details

(* C17: update_ticket_in_db applied to a ticket that is already verified
   changes nothing and returns the existing document, attendance_date_time
   and ticket_details unchanged, for every later verify or update job: a
   ticket document is mutated once. *)
C17_MarkVerifiedIsNoOp == [][MarkVerifiedIsNoOp]_vars

\* The step in which save_ticket_in_db is called with a ticket_number some
\* document already has.
DuplicateInsertRejected ==
    \A w \in Workers :
        (/\ pc[w] = "save" /\ pc'[w] # "save"
         /\ find_one(local[w].ticket_number) # 0) =>
            /\ collection' = collection
            /\ local'[w].status_code # 200

(* C19: inserting a ticket document whose ticket_number some document
   already has fails and leaves the store unchanged, so that the store holds
   no two documents with one ticket_number even when the generator's lookup
   let the number through. *)
C19_DuplicateInsertRejected ==
    /\ []TicketNumbersDistinct
    /\ [][DuplicateInsertRejected]_vars

\* The upper-case spelling of each key of the bounds.
UpperCaseOf(key) ==
    CASE key = <<"n", "a", "m", "e">> -> <<"N", "A", "M", "E">>
      [] key = <<"e", "v", "e", "n", "t">> -> <<"E", "V", "E", "N", "T">>
      [] key = <<"I", "d">> -> <<"I", "D">>
      [] key = TicketNumberKey ->
            <<"T", "I", "C", "K", "E", "T", "_", "N", "U", "M", "B", "E", "R">>

\* The lines of a string: its pieces between newlines.
RECURSIVE SplitLines(_)
SplitLines(str) ==
    IF \A i \in DOMAIN str : str[i] # "\n" THEN <<str>>
    ELSE LET i == CHOOSE i \in DOMAIN str :
                    /\ str[i] = "\n"
                    /\ \A k \in 1..(i - 1) : str[k] # "\n"
         IN <<SubSeq(str, 1, i - 1)>> \o SplitLines(SubSeq(str, i + 1, Len(str)))

(* C20: for every ticket_details mapping, the QR payload has exactly one
   line per key of the mapping after ticket_number was merged in (a key
   ticket_number of the request keeps its place and takes the generated
   number, otherwise the key goes last), in insertion order, and each line
   is the key in upper case, ": ", and the value as it is. *)
C20_QRPayloadLines ==
    render.at = "serialized" =>
        LET d == render.request_details
            n == IF \E i \in DOMAIN d : d[i][1] = TicketNumberKey
                 THEN Len(d) ELSE Len(d) + 1
            KeyAt(i) == IF i <= Len(d) THEN d[i][1] ELSE TicketNumberKey
            ValueAt(i) == IF KeyAt(i) = TicketNumberKey
                          THEN render.ticket_number ELSE d[i][2]
            lines == SplitLines(render.qr_data_str)
        IN /\ Len(lines) = n
           /\ \A i \in 1..n :
                 lines[i] = UpperCaseOf(KeyAt(i)) \o <<":", " ">> \o ValueAt(i)

\* name, event, then ticket_number gave the NAME, EVENT, TICKET_NUMBER lines.
C20_Witness ==
    /\ render.at = "serialized"
    /\ render.request_details =
          << <<<<"n", "a", "m", "e">>, <<"A", "l">>>>,
             <<<<"e", "v", "e", "n", "t">>, <<"7">>>> >>
    /\ render.qr_data_str =
          <<"N", "A", "M", "E", ":", " ", "A", "l", "\n">>
             \o <<"E", "V", "E", "N", "T", ":", " ", "7", "\n">>
             \o <<"T", "I", "C", "K", "E", "T", "_", "N", "U", "M", "B", "E", "R", ":", " ", "A">>

(* C21: for every template size (W, H) as pasted on, every unrotated QR
   size s and every offset {x, y} of the request's qr_config, the QR's
   top-left corner is placed at (W - s - x, H - s - y). *)
C21_QRPosition ==
    (/\ render.at = "pasted"
     /\ {"size", "offset"} \subseteq DOMAIN render.qr_config
     /\ {"x", "y"} \subseteq DOMAIN render.qr_config.offset
     /\ Get(render.qr_config, "rotation", 0) = 0) =>
        LET W == IF {"width", "height"} \subseteq DOMAIN render.image_size
                 THEN render.image_size.width ELSE render.template_image.width
            H == IF {"width", "height"} \subseteq DOMAIN render.image_size
                 THEN render.image_size.height ELSE render.template_image.height
            s == render.qr_config.size
        IN render.position = <<W - s - render.qr_config.offset.x,
                               H - s - render.qr_config.offset.y>>

\* A 2000x647 template, size 350 and offset {100, 200}: (1550, 97).
C21_Witness ==
    /\ render.at = "pasted"
    /\ render.template_image = [width |-> 2000, height |-> 647]
    /\ render.qr_config = [size |-> 350, offset |-> [x |-> 100, y |-> 200]]
    /\ render.position = <<1550, 97>>

\* generate_unique_ticket_number can return: some number is in no document.
SomeNumberFree == \E tn \in TicketNumbers : find_one(tn) = 0

\* Job j has a terminal status and its result.
Settled(j) ==
    /\ j \in DOMAIN job_queue_collection
    /\ Terminal(job_queue_collection[j].status)
    /\ job_queue_collection[j].result # NoResult

(* C22: with the job_processor thread scheduled fairly and every call it
   makes returning, every job inserted into the queue eventually has status
   completed or error with its result attached (the number generator
   returns as long as some ticket number is unused). *)
C22_EveryJobSettles ==
    \A j \in 1..MaxJobs :
        (j \in DOMAIN job_queue_collection) ~> (Settled(j) \/ ~SomeNumberFree)

\* Every job the bound allows was enqueued and is settled, numbers to spare.
C22_Witness ==
    /\ Len(job_queue_collection) = MaxJobs
    /\ \A j \in DOMAIN job_queue_collection : Settled(j)
    /\ SomeNumberFree

\* The step in which generate_unique_ticket_number returns.
ReturnsOnlyAbsent ==
    (render.at = "lookup" /\ render'.at = "returned") =>
        /\ find_one(render.ticket_number) = 0
        /\ render'.ticket_number = render.ticket_number

\* With every number taken the call is still in its loop: it has neither
\* returned nor left the loop in any other way.
LoopsWhenExhausted ==
    ~SomeNumberFree => render.at \in {"draw", "lookup"}

(* C25: generate_unique_ticket_number returns only a candidate the store
   lookup reported absent; under fair random draws it returns whenever at
   least one ticket number is unused; and when every number is taken it
   stays in its loop forever, without a retry cap and without an error. *)
C25_GeneratorLoop ==
    /\ [][ReturnsOnlyAbsent]_vars
    /\ []LoopsWhenExhausted
    /\ (SomeNumberFree ~> (render.at = "returned"))

\* More passes than are counted, every number taken, and still drawing.
C25_Witness ==
    /\ render.at = "draw"
    /\ render.draws = MaxDraws
    /\ ~SomeNumberFree

StoredNumbers(store) == {store[i].ticket_number : i \in DOMAIN store}

\* Every step keeps the documents there are; a step that removes files
\* touches neither collection.
TicketsOnlyGrow ==
    /\ Len(collection') >= Len(collection)
    /\ StoredNumbers(collection) \subseteq StoredNumbers(collection')
    /\ \A i \in DOMAIN collection :
          collection'[i].ticket_number = collection[i].ticket_number
    /\ (~(artifacts \subseteq artifacts')) =>
          /\ collection' = collection
          /\ job_queue_collection' = job_queue_collection

(* C23: ticket documents are never deleted: under every operation the set
   of ticket numbers in the store only grows, and delete_all_images removes
   files only, leaving the ticket collection and the job queue as they
   were. *)
C23_TicketsNeverDeleted == [][TicketsOnlyGrow]_vars

\* A ticket a job issued is in the store after its image was deleted.
C23_Witness ==
    \E j \in JobsOf("generate_ticket") :
        /\ job_queue_collection[j].status = "completed"
        /\ job_queue_collection[j].result.ticket_number
              \in StoredNumbers(collection) \ artifacts

\* The steps of job_processor around its throttle sleep.
ThrottleHoldsWorker ==
    \A w \in Workers :
        \* a generate job that issued a ticket and sent its email: the
        \* worker goes to sleep, the job document already written
        /\ (/\ pc[w] = "write" /\ pc'[w] # "write"
            /\ job_queue_collection[job[w]].job_type = "generate_ticket"
            /\ local[w].result.email_status = "Email sent") =>
              /\ pc'[w] = "sleep"
              /\ job_queue_collection'[job[w]].status = "completed"
              /\ job_queue_collection'[job[w]].result = local[w].result
              /\ local[w].result.ticket_number \in StoredNumbers(collection)
        \* asleep, the worker claims nothing: no job changes status, and the
        \* worker leaves the sleep only for polling
        /\ pc[w] = "sleep" =>
              /\ pc'[w] \in {"sleep", "poll"}
              /\ job'[w] = 0
              /\ \A j \in DOMAIN job_queue_collection :
                    job_queue_collection'[j] = job_queue_collection[j]

(* C24: after a generate_ticket job that issued a ticket and sent its
   email, the worker sleeps and claims no queued job until the sleep has
   ended, and the finished job's completed status and result are in the job
   document before the sleep starts. *)
C24_ThrottleBeforeNextJob == [][ThrottleHoldsWorker]_vars

\* The worker sleeps after a sent email while a job waits in the queue.
C24_Witness ==
    /\ pc["w1"] = "sleep"
    /\ \E j, k \in DOMAIN job_queue_collection :
          /\ job_queue_collection[j].status = "completed"
          /\ job_queue_collection[j].result.email_status = "Email sent"
          /\ job_queue_collection[k].status = "queued"

\* The step in which a verify job performs the verified transition, and
\* the steps of its other outcomes.
VerifyAppendsLogEntry ==
    \A w \in Workers :
        /\ (pc[w] = "verify_update" /\ pc'[w] # "verify_update") =>
              /\ Len(attendance_log') = Len(attendance_log) + 1
              /\ attendance_log'[Len(attendance_log')].ticket_number
                    = Data(w).ticket_number
              /\ attendance_log'[Len(attendance_log')].timestamp = now'
        /\ (pc[w] = "verify" /\ pc'[w] = "write") =>
              attendance_log' = attendance_log

(* C26: every verify job that performs the verified transition appends one
   attendance-log entry, separate from the ticket document, with the ticket
   number, the verification time and the details; a verify job that reports
   AlreadyVerified or NotFound appends none. *)
C26_VerifyAppendsLogEntry == [][VerifyAppendsLogEntry]_vars

\* The steps of the three endpoints and of add_job.
EnqueueOnlyAddsJob ==
    \* a request that ends has put its job at the end of the queue
    /\ \A r \in requests \ requests' :
          /\ Len(job_queue_collection') = Len(job_queue_collection) + 1
          /\ job_queue_collection'[Len(job_queue_collection')] = r
    \* a job that appears is one job, queued, without result
    /\ Len(job_queue_collection') # Len(job_queue_collection) =>
          /\ Len(job_queue_collection') = Len(job_queue_collection) + 1
          /\ job_queue_collection'[Len(job_queue_collection')].status = "queued"
          /\ job_queue_collection'[Len(job_queue_collection')].result = NoResult
    \* the steps of a request leave the tickets, the files, the mail and
    \* the jobs there are alone
    /\ (requests' # requests) =>
          /\ UNCHANGED <<collection, artifacts, outbox>>
          /\ \A j \in DOMAIN job_queue_collection :
                job_queue_collection'[j] = job_queue_collection[j]
    \* tickets are written by worker steps only
    /\ (collection' # collection) =>
          \E w \in Workers : pc[w] # pc'[w]

(* C27: each enqueue request (generate, verify, update endpoint) adds
   exactly one new job with status queued and no result: it validates
   nothing in the body, never writes to the ticket store, and changes no
   job there is; every write to the ticket store is a step of the worker. *)
C27_EnqueueOnlyAddsJob == [][EnqueueOnlyAddsJob]_vars

\* A body without email was enqueued all the same and waits in the queue
\* behind a job that issued a ticket.
C27_Witness ==
    \E j, k \in JobsOf("generate_ticket") :
        /\ j < k
        /\ job_queue_collection[j].status = "completed"
        /\ job_queue_collection[k].data.payload = "noemail"
        /\ job_queue_collection[k].status = "queued"
        /\ job_queue_collection[k].result = NoResult

\* The messages of the 200 outcomes of the three processing functions.
OutcomesOf200 ==
    {"issued", "Ticket is verified.", "Ticket already verified.",
     "Ticket has been updated and marked as verified."}

\* The step in which a processing function returns or raises, and the
\* step in which job_processor writes the job's status.
StatusFollowsOutcome ==
    \A w \in Workers :
        /\ (pc[w] # "write" /\ pc'[w] = "write") =>
              (local'[w].status_code = 200
                  <=> local'[w].result.message \in OutcomesOf200)
        /\ (pc[w] = "write" /\ pc'[w] # "write") =>
              /\ job_queue_collection'[job[w]].result = local[w].result
              /\ job_queue_collection'[job[w]].status =
                    (IF local[w].status_code = 200 THEN "completed" ELSE "error")

\* Each terminal job by the outcome in its result.
OutcomeDecidesStatus ==
    \A j \in DOMAIN job_queue_collection :
        LET doc == job_queue_collection[j] IN
        Terminal(doc.status) =>
            /\ doc.status = "completed" <=> doc.result.message \in OutcomesOf200
            /\ doc.result.message
                  \in {"Ticket not found.", "Missing required field: email",
                       "Template image not found", "Unknown job type", "exception"}
                  => doc.status = "error"
            /\ doc.job_type = "other_job" => doc.status = "error"

(* C28: a job ends completed exactly when its processing function returned
   status code 200: a verify job reporting "Ticket already verified." ends
   completed, while "Ticket not found." on verify or update, a validation
   failure, a job_type without a branch and a raised exception all end in
   error. *)
C28_CompletedIff200 ==
    /\ []OutcomeDecidesStatus
    /\ [][StatusFollowsOutcome]_vars

\* A verify job that found the ticket verified by the job before it ended
\* completed.
C28_Witness ==
    \E j, k \in DOMAIN job_queue_collection :
        /\ j # k
        /\ job_queue_collection[j].status = "completed"
        /\ job_queue_collection[k].job_type = "verify_ticket"
        /\ job_queue_collection[k].result.message = "Ticket already verified."
        /\ job_queue_collection[k].status = "completed"

\* The steps of a job document.
ResultWrittenOnce ==
    \A j \in DOMAIN job_queue_collection :
        LET doc == job_queue_collection[j]
            doc2 == job_queue_collection'[j] IN
        \* the result comes with the terminal status, in one step
        /\ (~Terminal(doc.status) /\ Terminal(doc2.status)) => doc2.result # NoResult
        /\ (doc.result = NoResult /\ doc2.result # NoResult) => Terminal(doc2.status)
        \* and stays as it is
        /\ Terminal(doc.status) => doc2 = doc

\* result is None exactly in the jobs that are queued or processing.
ResultNullIffPending ==
    \A j \in DOMAIN job_queue_collection :
        (job_queue_collection[j].result = NoResult)
            <=> (job_queue_collection[j].status \in {"queued", "processing"})

(* C29: in every reachable state a job's result is null if and only if its
   status is queued or processing; the result is written in the step that
   moves the job to completed or error and is never changed afterwards. *)
C29_ResultIffTerminal ==
    /\ []ResultNullIffPending
    /\ [][ResultWrittenOnce]_vars

\* A settled job with its result next to a job in processing without one.
C29_Witness ==
    \E j, k \in DOMAIN job_queue_collection :
        /\ Terminal(job_queue_collection[j].status)
        /\ job_queue_collection[j].result # NoResult
        /\ job_queue_collection[k].status = "processing"
        /\ job_queue_collection[k].result = NoResult

\* Job j was claimed by a worker that is gone: it is in processing and no
\* job_processor loop holds it.
Stranded(j) ==
    /\ j \in DOMAIN job_queue_collection
    /\ job_queue_collection[j].status = "processing"
    /\ \A w \in Workers : job[w] # j

StrandedStays ==
    \A j \in DOMAIN job_queue_collection :
        Stranded(j) =>
            /\ job_queue_collection'[j] = job_queue_collection[j]
            /\ \A w \in Workers : job'[w] # j

(* C30: a job whose worker stopped after claiming it and before writing its
   result stays in processing, without result, in every later state, also
   after a new worker has started: no worker claims a job that is not
   queued. *)
C30_StrandedJobStays == [][StrandedStays]_vars

\* A job is stranded in processing while the worker started afterwards has
\* settled the job behind it.
C30_Witness ==
    \E j, k \in DOMAIN job_queue_collection :
        /\ Stranded(j)
        /\ job_queue_collection[j].result = NoResult
        /\ Terminal(job_queue_collection[k].status)
        /\ pc["w1"] = "dead"
        /\ pc["w2"] = "poll"

\* Tickets of a history (poller.generated or poller.sent) that belong to
\* the key (template_id, Name, Roll-No, EMAIL).
TicketsOfKey(history, template_id, row) ==
    {i \in DOMAIN history :
        history[i].template_id = template_id /\ history[i].row = row}

PollerKeys == {sheet_configs[c].template_id : c \in DOMAIN sheet_configs} \X Rows

\* No key has two tickets generated or two emails sent.
AtMostOncePerKey ==
    \A k \in PollerKeys :
        /\ Cardinality(TicketsOfKey(poller.generated, k[1], k[2])) <= 1
        /\ Cardinality(TicketsOfKey(poller.sent, k[1], k[2])) <= 1

\* No key of a configuration whose template is missing is in processed_ids.
MissingTemplateNeverProcessed ==
    \A k \in PollerKeys :
        ~TemplateExists(k[1]) => unique_key(k[1], k[2]) \notin poller.processed_ids

\* The loop of process_sheet is at a valid row of a configuration whose
\* template is missing, and a ticket number can be drawn.
AtMissingTemplateRow ==
    /\ poller.at = "row"
    /\ ~TemplateExists(sheet_configs[poller.config].template_id)
    /\ ~StripRaises(poller.sheet[poller.row])
    /\ is_valid_row(poller.sheet[poller.row])
    /\ poller.existing_keys # TicketNumbers

\* The step taken there calls generate_ticket_qr again and finds no template.
MissingTemplateRetried ==
    AtMissingTemplateRow /\ poller' # poller =>
        /\ poller'.log = Append(poller.log, "no_template")
        /\ poller'.processed_ids = poller.processed_ids
        /\ poller'.generated = poller.generated
        /\ poller'.sent = poller.sent

(* C31: within one run of main.py, over any number of passes of its loop,
   each key (template_id, Name, Roll-No, EMAIL) has at most one ticket
   generated and at most one email sent; a row whose template is missing
   is never put in processed_ids, and every pass that comes to it calls
   generate_ticket_qr for it again. *)
C31_OneTicketPerKey ==
    /\ [](poller.at # "idle" => AtMostOncePerKey /\ MissingTemplateNeverProcessed)
    /\ [][MissingTemplateRetried]_vars

\* A later pass over a sheet of one row: under the first configuration the
\* row was skipped as processed, its one ticket and one email being those
\* of an earlier pass, and under the configuration without a template it
\* was tried again.
C31_Witness ==
    /\ poller.at = "sleep"
    /\ poller.passes >= 1
    /\ Len(poller.sheet) = 1
    /\ poller.log = <<"skipped", "no_template">>
    /\ Len(poller.generated) = 1
    /\ Len(poller.sent) = 1

====
